---- MODULE Spec2Model ----
(***************************************************************************)
(* A model of the Source-engine query/RCON client (package steam):         *)
(*   server.go      Connect, init, initRCON, authenticate, Close, Ping,    *)
(*                  Info, PlayersInfo, Send                                *)
(*   rconsocket.go  rconSocket.send / receive / close                      *)
(* Spec models one Server: Connect by its single caller, then a set of     *)
(* goroutines calling the public operations on the returned *Server.       *)
(* Every socket send/receive is one step; what the peer answers is chosen  *)
(* nondeterministically.                                                   *)
(***************************************************************************)
EXTENDS Integers, Sequences, FiniteSets, TLC

\* ---------------------------------------------------------------- bounds
MaxId == 5          \* no Send is started once the next request id exceeds MaxId - 1
MaxFrags == 2       \* most frames a peer sends ahead of the mirror frame
MaxLen == 3         \* longest payload a length prefix declares in RecvSpec

\* ------------------------------------------------------------- constants
Threads == {1, 2}
NoThread == 0

trailer == <<0, 1, 0, 0>>

Bodies == {<<>>, <<1>>, trailer}
Challenges == {0, 7}

ErrNil == "nil"
ErrSock == "socket error"
ErrDecode == "decode error"
ErrAddr == "steam: server needs a address"
ErrRCONAuthFailed == "steam: authentication failed"
ErrRCONNotInitialized == "steam: rcon is not initialized"
ErrInvalidResponseType == "steam: invalid response type from server"
ErrInvalidResponseID == "steam: invalid response id from server"
ErrInvalidResponseTrailer == "steam: invalid response trailer from server"

rrtRespValue == "RESPONSE_VALUE"
rrtAuthResp == "AUTH_RESPONSE"
rrtExecCmd == "EXEC_COMMAND"
rrtAuth == "AUTH"

Ops == {"Ping", "Info", "PlayersInfo", "Send", "Close"}

VARIABLES
    addr,             \* Server.addr
    rconPassword,     \* Server.rconPassword
    usock,            \* Server.usock: "nil", "open" or "closed"
    rsock,            \* Server.rsock: "nil", "open" or "closed"
    rconInitialized,  \* Server.rconInitialized
    mu,               \* Server.mu: NoThread, or the goroutine holding it
    nextId,           \* the id the next newRCONRequest hands out
    cpc,              \* where Connect is
    cerr,             \* the error Connect returned
    cio,              \* the socket calls of authenticate, in order
    creq,             \* authenticate's req.id
    pc,               \* per goroutine: where it is
    op,               \* per goroutine: the operation it is in
    io,               \* per goroutine: the socket calls of the current operation
    reqId,            \* Send's req.id
    mirrorId,         \* Send's reqMirror.id
    buf,              \* Send's buf
    sawMirror,        \* Send's sawMirror
    data,             \* Info/PlayersInfo's data
    ret,              \* Send's returned string
    err,              \* the error the operation returns
    rstream,          \* rconSocket.receive: the bytes the peer still delivers
    rend,             \* ... and what a read finds after them: "silent" or "eof"
    rdl,              \* the connection's read deadline: "none" or "set"
    rpc,              \* where receive is
    rbuf,             \* receive's buf
    rtotal,           \* receive's total
    rout,             \* the bytes receive returned
    rerr,             \* the error receive returned
    rread,            \* the bytes receive's reads took off the stream, in order
    rseen             \* the kinds of read result so far: "data", "timeout", "EOF"

srv == <<addr, rconPassword, usock, rsock, rconInitialized, nextId>>
conn == <<cpc, cerr, cio, creq>>
thr == <<pc, op, io, reqId, mirrorId, buf, sawMirror, data, ret, err>>
rcv == <<rstream, rend, rdl, rpc, rbuf, rtotal, rout, rerr, rread, rseen>>
vars == <<srv, conn, mu, thr, rcv>>

\* --------------------------------------------------------------- helpers
RECURSIVE Concat(_)
Concat(ss) == IF ss = <<>> THEN <<>> ELSE Head(ss) \o Concat(Tail(ss))

\* One socket call as the log keeps it.
Ev(kind, sock, ok, what) == [kind |-> kind, sock |-> sock, ok |-> ok, what |-> what]

NoData == [tag |-> "none", val |-> 0, good |-> FALSE]
NoFrame == [typ |-> "none", id |-> 0, body |-> <<>>]

\* What the RCON peer can put on the wire as one length-framed message: a
\* frame unmarshalBinary decodes, or bytes it rejects.
RFrames(ids) ==
    [typ : {rrtRespValue}, id : ids, body : Bodies]
      \cup [typ : {rrtAuthResp}, id : ids, body : {<<>>}]
Garbage == [typ |-> "garbage", id |-> 0, body |-> <<>>]

\* rconResponse.unmarshalBinary: the error it returns for `d`.
unmarshalBinary(d) == IF d = Garbage THEN ErrDecode ELSE ErrNil

\* The ids a peer can answer with: -1 and every id handed out so far.
PeerIds == {-1} \cup (1..(nextId - 1))

\* rconSocket.send / udpSocket.send: the outcomes on a socket in state `sk`.
\* A closed socket fails every call.
SendOutcomes(sk) == IF sk = "open" THEN {TRUE, FALSE} ELSE {FALSE}
RecvOutcomes(sk) == IF sk = "open" THEN {TRUE, FALSE} ELSE {FALSE}

\* ---------------------------------------------------------------- Connect
Init ==
    /\ addr \in {"", "host"}
    /\ rconPassword \in {"", "pw"}
    /\ usock = "nil"
    /\ rsock = "nil"
    /\ rconInitialized = FALSE
    /\ mu = NoThread
    /\ nextId = 1
    /\ cpc = "start"
    /\ cerr = ErrNil
    /\ cio = <<>>
    /\ creq = 0
    /\ pc = [t \in Threads |-> "idle"]
    /\ op = [t \in Threads |-> "none"]
    /\ io = [t \in Threads |-> <<>>]
    /\ reqId = [t \in Threads |-> 0]
    /\ mirrorId = [t \in Threads |-> 0]
    /\ buf = [t \in Threads |-> <<>>]
    /\ sawMirror = [t \in Threads |-> FALSE]
    /\ data = [t \in Threads |-> NoData]
    /\ ret = [t \in Threads |-> <<>>]
    /\ err = [t \in Threads |-> ErrNil]
    /\ rstream = <<>> /\ rend = "silent" /\ rdl = "none" /\ rpc = "done"
    /\ rbuf = <<>> /\ rtotal = 0 /\ rout = <<>> /\ rerr = ErrNil
    /\ rread = <<>> /\ rseen = {}

\* Connect's deferred function (server.go:62-66): the query socket after it.
\* (variant: the deferred function closes nothing)
ConnectDeferNoClose(e, us) == us
ConnectDefer(e, us) == IF e # ErrNil THEN "closed" ELSE us

\* initRCON's deferred function (server.go:95-99): the RCON socket after it.
\* (variant: the deferred function closes nothing)
InitRCONDeferNoClose(e, rs) == rs
InitRCONDefer(e, rs) == IF e # ErrNil THEN "closed" ELSE rs

\* initRCON returns `e` after the RCON socket was dialed, and Connect returns
\* it: both deferred functions run.
InitRCONReturn(e) ==
    /\ rsock' = InitRCONDefer(e, rsock)
    /\ usock' = ConnectDefer(e, usock)
    /\ cerr' = e
    /\ cpc' = IF e = ErrNil THEN "ok" ELSE "failed"
    /\ rconInitialized' = (e = ErrNil)

\* Connect up to the call of initRCON: s.init() and the password test.
\* (variant: initRCON is called whatever the password)
ConnectInitNoPasswordTest ==
    /\ cpc = "start"
    /\ \/ /\ addr = ""
          /\ cerr' = ErrAddr /\ cpc' = "failed" /\ UNCHANGED usock
       \/ /\ addr # ""
          /\ \E dialed \in BOOLEAN :
               IF ~dialed
                 THEN cerr' = ErrSock /\ cpc' = "failed" /\ UNCHANGED usock
                 ELSE /\ usock' = "open"
                      /\ cerr' = ErrNil
                      /\ cpc' = "initRCON"
    /\ UNCHANGED <<rcv, addr, rconPassword, rsock, rconInitialized, nextId, cio, creq, mu, thr>>
ConnectInit ==
    /\ cpc = "start"
    /\ \/ /\ addr = ""
          /\ cerr' = ErrAddr /\ cpc' = "failed" /\ UNCHANGED usock
       \/ /\ addr # ""
          /\ \E dialed \in BOOLEAN :
               IF ~dialed
                 THEN cerr' = ErrSock /\ cpc' = "failed" /\ UNCHANGED usock
                 ELSE /\ usock' = "open"
                      /\ cerr' = ErrNil
                      /\ cpc' = IF rconPassword = "" THEN "ok" ELSE "initRCON"
    /\ UNCHANGED <<rcv, addr, rconPassword, rsock, rconInitialized, nextId, cio, creq, mu, thr>>

\* initRCON: newRCONSocket.
InitRCONDial ==
    /\ cpc = "initRCON"
    /\ \E dialed \in BOOLEAN :
         IF ~dialed
           THEN /\ usock' = ConnectDefer(ErrSock, usock)
                /\ cerr' = ErrSock /\ cpc' = "failed"
                /\ UNCHANGED rsock
           ELSE /\ rsock' = "open" /\ cpc' = "auth_send"
                /\ UNCHANGED <<usock, cerr>>
    /\ UNCHANGED <<rcv, addr, rconPassword, rconInitialized, nextId, cio, creq, mu, thr>>

\* authenticate: newRCONRequest(rrtAuth, password) and s.rsock.send.
AuthSend ==
    /\ cpc = "auth_send"
    /\ creq' = nextId
    /\ nextId' = nextId + 1
    /\ \E sent \in SendOutcomes(rsock) :
         /\ cio' = Append(cio, Ev("send", "r", sent,
                                  [typ |-> rrtAuth, id |-> nextId, body |-> <<>>]))
         /\ IF sent
              THEN cpc' = "auth_recv1" /\ UNCHANGED <<usock, rsock, cerr, rconInitialized>>
              ELSE InitRCONReturn(ErrSock)
    /\ UNCHANGED <<rcv, addr, rconPassword, mu, thr>>

\* authenticate's test of the first reply (server.go:122-127).
\* (variant: the id is tested first, then the type)
AuthCheckFirstSwapped(resp, id) ==
    IF resp.id # id THEN ErrInvalidResponseID
    ELSE IF resp.typ # rrtRespValue THEN ErrInvalidResponseType
    ELSE ErrNil
AuthCheckFirst(resp, id) ==
    IF resp.typ # rrtRespValue \/ resp.id # id THEN ErrInvalidResponseID
    ELSE IF resp.id # id THEN ErrInvalidResponseType
    ELSE ErrNil

\* authenticate's test of the second reply (server.go:136-139).
\* (variant: any second reply is accepted)
AuthCheckSecondAccept(resp, id) == ErrNil
AuthCheckSecond(resp, id) ==
    IF resp.typ # rrtAuthResp \/ resp.id # id THEN ErrRCONAuthFailed ELSE ErrNil

\* authenticate: receive and test the empty response value.
AuthRecv1 ==
    /\ cpc = "auth_recv1"
    /\ \E got \in RecvOutcomes(rsock), d \in RFrames(PeerIds) \cup {Garbage} :
         /\ cio' = Append(cio, Ev("recv", "r", got, IF got THEN d ELSE NoFrame))
         /\ LET e == IF ~got THEN ErrSock
                     ELSE IF unmarshalBinary(d) # ErrNil THEN unmarshalBinary(d)
                     ELSE AuthCheckFirst(d, creq)
            IN IF e = ErrNil
                 THEN cpc' = "auth_recv2"
                      /\ UNCHANGED <<usock, rsock, cerr, rconInitialized>>
                 ELSE InitRCONReturn(e)
    /\ UNCHANGED <<rcv, addr, rconPassword, nextId, creq, mu, thr>>

\* authenticate: receive and test the auth response; initRCON and Connect
\* return.
AuthRecv2 ==
    /\ cpc = "auth_recv2"
    /\ \E got \in RecvOutcomes(rsock), d \in RFrames(PeerIds) \cup {Garbage} :
         /\ cio' = Append(cio, Ev("recv", "r", got, IF got THEN d ELSE NoFrame))
         /\ LET e == IF ~got THEN ErrSock
                     ELSE IF unmarshalBinary(d) # ErrNil THEN unmarshalBinary(d)
                     ELSE AuthCheckSecond(d, creq)
            IN InitRCONReturn(e)
    /\ UNCHANGED <<rcv, addr, rconPassword, nextId, creq, mu, thr>>

\* ------------------------------------------------- the public operations
\* The datagrams the query peer can answer with.
Datagrams ==
    [tag : {"challenge"}, val : Challenges, good : BOOLEAN]
      \cup [tag : {"info", "players"}, val : {0}, good : BOOLEAN]

isChallengeResponse(d) == d.tag = "challenge"

\* ChallengeResponse.unmarshalBinary, InfoResponse.unmarshalBinary and
\* PlayersInfoResponse.unmarshalBinary: the error each returns for `d`.
unmarshalChallenge(d) == IF d.tag = "challenge" /\ d.good THEN ErrNil ELSE ErrDecode
unmarshalReply(o, d) ==
    IF d.good /\ ((o = "Info" /\ d.tag = "info") \/ (o = "PlayersInfo" /\ d.tag = "players"))
      THEN ErrNil ELSE ErrDecode

\* infoRequest{c} / playersInfoRequest{c}
\* (variant: the challenge is dropped)
QueryRequestNoChallenge(o, c) == [kind |-> o, challenge |-> 0]
QueryRequest(o, c) == [kind |-> o, challenge |-> c]

CmdText == <<1>>

\* A goroutine calls an operation of the Server that Connect returned.
Invoke(t, o) ==
    /\ cpc = "ok"
    /\ pc[t] = "idle"
    /\ o = "Send" => nextId + 1 <= MaxId
    /\ op' = [op EXCEPT ![t] = o]
    /\ pc' = [pc EXCEPT ![t] = IF o = "Close" THEN "close_r" ELSE "lock"]
    /\ UNCHANGED <<rcv, srv, conn, mu, io, reqId, mirrorId, buf, sawMirror, data, ret, err>>

\* The first statement of each locked operation.
Entry(o) ==
    CASE o = "Ping" -> "ping_send"
      [] o = "Send" -> "send_check"
      [] OTHER -> "q_send1"

\* s.mu.Lock()
Lock(t) ==
    /\ pc[t] = "lock"
    /\ mu = NoThread
    /\ mu' = t
    /\ pc' = [pc EXCEPT ![t] = Entry(op[t])]
    /\ UNCHANGED <<rcv, srv, conn, op, io, reqId, mirrorId, buf, sawMirror, data, ret, err>>

\* The return statement sets the results; the deferred Unlock is Return.
SetResult(t, r, e) ==
    /\ ret' = [ret EXCEPT ![t] = r]
    /\ err' = [err EXCEPT ![t] = e]
    /\ pc' = [pc EXCEPT ![t] = "ret"]

\* defer s.mu.Unlock(), and control goes back to the caller.
\* (variant: the lock is released on the success path only)
ReturnKeepLockOnError(t) ==
    /\ pc[t] = "ret"
    /\ mu' = IF err[t] = ErrNil THEN NoThread ELSE mu
    /\ pc' = [pc EXCEPT ![t] = "idle"]
    /\ op' = [op EXCEPT ![t] = "none"]
    /\ io' = [io EXCEPT ![t] = <<>>]
    /\ reqId' = [reqId EXCEPT ![t] = 0]
    /\ mirrorId' = [mirrorId EXCEPT ![t] = 0]
    /\ buf' = [buf EXCEPT ![t] = <<>>]
    /\ sawMirror' = [sawMirror EXCEPT ![t] = FALSE]
    /\ data' = [data EXCEPT ![t] = NoData]
    /\ ret' = [ret EXCEPT ![t] = <<>>]
    /\ err' = [err EXCEPT ![t] = ErrNil]
    /\ UNCHANGED <<rcv, srv, conn>>
Return(t) ==
    /\ pc[t] = "ret"
    /\ mu' = NoThread
    /\ pc' = [pc EXCEPT ![t] = "idle"]
    /\ op' = [op EXCEPT ![t] = "none"]
    /\ io' = [io EXCEPT ![t] = <<>>]
    /\ reqId' = [reqId EXCEPT ![t] = 0]
    /\ mirrorId' = [mirrorId EXCEPT ![t] = 0]
    /\ buf' = [buf EXCEPT ![t] = <<>>]
    /\ sawMirror' = [sawMirror EXCEPT ![t] = FALSE]
    /\ data' = [data EXCEPT ![t] = NoData]
    /\ ret' = [ret EXCEPT ![t] = <<>>]
    /\ err' = [err EXCEPT ![t] = ErrNil]
    /\ UNCHANGED <<rcv, srv, conn>>

\* Close: the rconInitialized test and s.rsock.close().
\* (variant: Close clears rconInitialized)
CloseRCONClearFlag(t) ==
    /\ pc[t] = "close_r"
    /\ rsock' = IF rconInitialized THEN "closed" ELSE rsock
    /\ rconInitialized' = FALSE
    /\ pc' = [pc EXCEPT ![t] = "close_u"]
    /\ UNCHANGED <<rcv, addr, rconPassword, usock, nextId, conn, mu,
                   op, io, reqId, mirrorId, buf, sawMirror, data, ret, err>>
CloseRCON(t) ==
    /\ pc[t] = "close_r"
    /\ rsock' = IF rconInitialized THEN "closed" ELSE rsock
    /\ pc' = [pc EXCEPT ![t] = "close_u"]
    /\ UNCHANGED <<rcv, addr, rconPassword, usock, rconInitialized, nextId, conn, mu,
                   op, io, reqId, mirrorId, buf, sawMirror, data, ret, err>>

\* Close: s.usock.close(), and Close returns.
CloseQuery(t) ==
    /\ pc[t] = "close_u"
    /\ usock' = "closed"
    /\ pc' = [pc EXCEPT ![t] = "idle"]
    /\ op' = [op EXCEPT ![t] = "none"]
    /\ UNCHANGED <<rcv, addr, rconPassword, rsock, rconInitialized, nextId, conn, mu,
                   io, reqId, mirrorId, buf, sawMirror, data, ret, err>>

\* Ping: _ = s.usock.send(req)
PingSend(t) ==
    /\ pc[t] = "ping_send"
    /\ \E sent \in SendOutcomes(usock) :
         io' = [io EXCEPT ![t] = Append(@, Ev("send", "u", sent, QueryRequest("Info", 0)))]
    /\ pc' = [pc EXCEPT ![t] = "ping_recv"]
    /\ UNCHANGED <<rcv, srv, conn, mu, op, reqId, mirrorId, buf, sawMirror, data, ret, err>>

\* Ping: s.usock.receive() and the return.
PingRecv(t) ==
    /\ pc[t] = "ping_recv"
    /\ \E got \in RecvOutcomes(usock), d \in Datagrams :
         /\ io' = [io EXCEPT ![t] = Append(@, Ev("recv", "u", got, IF got THEN d ELSE NoData))]
         /\ SetResult(t, <<>>, IF got THEN ErrNil ELSE ErrSock)
    /\ UNCHANGED <<rcv, srv, conn, mu, op, reqId, mirrorId, buf, sawMirror, data>>

\* Info / PlayersInfo: a request goes out, the first one without a challenge
\* and the second one with the challenge of the reply in `data`.
QuerySend(t) ==
    /\ pc[t] \in {"q_send1", "q_send2"}
    /\ \E sent \in SendOutcomes(usock) :
         /\ io' = [io EXCEPT ![t] = Append(@, Ev("send", "u", sent,
                      QueryRequest(op[t], IF pc[t] = "q_send1" THEN 0 ELSE data[t].val)))]
         /\ IF sent
              THEN /\ pc' = [pc EXCEPT ![t] = IF pc[t] = "q_send1" THEN "q_recv1" ELSE "q_recv2"]
                   /\ UNCHANGED <<ret, err>>
              ELSE SetResult(t, <<>>, ErrSock)
    /\ UNCHANGED <<rcv, srv, conn, mu, op, reqId, mirrorId, buf, sawMirror, data>>

\* Whether Info / PlayersInfo query again after the reply `d` to request
\* number `n` (server.go:177, 214: only the first reply is tested).
\* (variant: every challenge reply is answered)
RequeryAlways(n, d) == isChallengeResponse(d)
Requery(n, d) == n = 1 /\ isChallengeResponse(d)

\* Info / PlayersInfo: a reply comes in; it is a challenge to answer, or it
\* is decoded and the operation returns.
QueryRecv(t) ==
    /\ pc[t] \in {"q_recv1", "q_recv2"}
    /\ \E got \in RecvOutcomes(usock), d \in Datagrams :
         /\ io' = [io EXCEPT ![t] = Append(@, Ev("recv", "u", got, IF got THEN d ELSE NoData))]
         /\ IF ~got
              THEN SetResult(t, <<>>, ErrSock) /\ UNCHANGED data
              ELSE /\ data' = [data EXCEPT ![t] = d]
                   /\ IF Requery(IF pc[t] = "q_recv1" THEN 1 ELSE 2, d)
                        THEN IF unmarshalChallenge(d) # ErrNil
                               THEN SetResult(t, <<>>, unmarshalChallenge(d))
                               ELSE /\ pc' = [pc EXCEPT ![t] = "q_send2"]
                                    /\ UNCHANGED <<ret, err>>
                        ELSE SetResult(t, <<>>, unmarshalReply(op[t], d))
    /\ UNCHANGED <<rcv, srv, conn, mu, op, reqId, mirrorId, buf, sawMirror>>

\* ------------------------------------------------------------------ Send
\* Send's rconInitialized test (server.go:242-244).
\* (variant: the test is skipped)
SendCheckSkip(t) ==
    /\ pc[t] = "send_check"
    /\ pc' = [pc EXCEPT ![t] = "send_req"]
    /\ UNCHANGED <<rcv, srv, conn, mu, op, io, reqId, mirrorId, buf, sawMirror, data, ret, err>>
SendCheck(t) ==
    /\ pc[t] = "send_check"
    /\ IF ~rconInitialized
         THEN SetResult(t, <<>>, ErrRCONNotInitialized)
         ELSE /\ pc' = [pc EXCEPT ![t] = "send_req"]
              /\ UNCHANGED <<ret, err>>
    /\ UNCHANGED <<rcv, srv, conn, mu, op, io, reqId, mirrorId, buf, sawMirror, data>>

\* newRCONRequest(rrtExecCmd, cmd) and s.rsock.send.
\* (variant: the send error is dropped)
SendRequestIgnoreError(t) ==
    /\ pc[t] = "send_req"
    /\ reqId' = [reqId EXCEPT ![t] = nextId]
    /\ nextId' = nextId + 1
    /\ \E sent \in SendOutcomes(rsock) :
         io' = [io EXCEPT ![t] = Append(@, Ev("send", "r", sent,
                   [typ |-> rrtExecCmd, id |-> nextId, body |-> CmdText]))]
    /\ pc' = [pc EXCEPT ![t] = "send_mirror"]
    /\ UNCHANGED <<rcv, addr, rconPassword, usock, rsock, rconInitialized, conn, mu,
                   op, mirrorId, buf, sawMirror, data, ret, err>>
SendRequest(t) ==
    /\ pc[t] = "send_req"
    /\ reqId' = [reqId EXCEPT ![t] = nextId]
    /\ nextId' = nextId + 1
    /\ \E sent \in SendOutcomes(rsock) :
         /\ io' = [io EXCEPT ![t] = Append(@, Ev("send", "r", sent,
                      [typ |-> rrtExecCmd, id |-> nextId, body |-> CmdText]))]
         /\ IF sent
              THEN pc' = [pc EXCEPT ![t] = "send_mirror"] /\ UNCHANGED <<ret, err>>
              ELSE SetResult(t, <<>>, ErrSock)
    /\ UNCHANGED <<rcv, addr, rconPassword, usock, rsock, rconInitialized, conn, mu,
                   op, mirrorId, buf, sawMirror, data>>

\* newRCONRequest(rrtRespValue, "") and s.rsock.send: the mirror packet.
SendMirror(t) ==
    /\ pc[t] = "send_mirror"
    /\ mirrorId' = [mirrorId EXCEPT ![t] = nextId]
    /\ nextId' = nextId + 1
    /\ \E sent \in SendOutcomes(rsock) :
         /\ io' = [io EXCEPT ![t] = Append(@, Ev("send", "r", sent,
                      [typ |-> rrtRespValue, id |-> nextId, body |-> <<>>]))]
         /\ IF sent
              THEN pc' = [pc EXCEPT ![t] = "send_recv"] /\ UNCHANGED <<ret, err>>
              ELSE SetResult(t, <<>>, ErrSock)
    /\ UNCHANGED <<rcv, addr, rconPassword, usock, rsock, rconInitialized, conn, mu,
                   op, reqId, buf, sawMirror, data>>

\* What Send returns with an error: the empty string (server.go:264-288).
\* (variant: the accumulated output is returned with the error)
SendFailPartial(b, e) == [next |-> "ret", saw |-> FALSE, buf |-> b, ret |-> b, err |-> e]
SendFail(b, e) == [next |-> "ret", saw |-> FALSE, buf |-> b, ret |-> <<>>, err |-> e]

\* One pass of Send's receive loop over the decoded frame `resp`
\* (server.go:270-290): the loop goes on, or Send returns.
\* (variants: Send returns at the mirror frame; a body is put in front of
\* buf; the id of a frame ahead of the mirror is not tested)
SendOnFrameAnyId(resp, rid, mid, saw, b) ==
    IF resp.typ # rrtRespValue THEN SendFail(b, ErrInvalidResponseType)
    ELSE IF ~saw /\ resp.id = mid
      THEN [next |-> "loop", saw |-> TRUE, buf |-> b, ret |-> <<>>, err |-> ErrNil]
    ELSE IF saw
      THEN IF resp.body = trailer
             THEN [next |-> "ret", saw |-> saw, buf |-> b, ret |-> b, err |-> ErrNil]
             ELSE SendFail(b, ErrInvalidResponseTrailer)
    ELSE [next |-> "loop", saw |-> saw, buf |-> b \o resp.body, ret |-> <<>>, err |-> ErrNil]
SendOnFrameNoTrailer(resp, rid, mid, saw, b) ==
    IF resp.typ # rrtRespValue THEN SendFail(b, ErrInvalidResponseType)
    ELSE IF ~saw /\ resp.id = mid
      THEN [next |-> "ret", saw |-> TRUE, buf |-> b, ret |-> b, err |-> ErrNil]
    ELSE IF rid # resp.id THEN SendFail(b, ErrInvalidResponseID)
    ELSE [next |-> "loop", saw |-> saw, buf |-> b \o resp.body, ret |-> <<>>, err |-> ErrNil]
SendOnFramePrepend(resp, rid, mid, saw, b) ==
    IF resp.typ # rrtRespValue THEN SendFail(b, ErrInvalidResponseType)
    ELSE IF ~saw /\ resp.id = mid
      THEN [next |-> "loop", saw |-> TRUE, buf |-> b, ret |-> <<>>, err |-> ErrNil]
    ELSE IF saw
      THEN IF resp.body = trailer
             THEN [next |-> "ret", saw |-> saw, buf |-> b, ret |-> b, err |-> ErrNil]
             ELSE SendFail(b, ErrInvalidResponseTrailer)
    ELSE IF rid # resp.id THEN SendFail(b, ErrInvalidResponseID)
    ELSE [next |-> "loop", saw |-> saw, buf |-> resp.body \o b, ret |-> <<>>, err |-> ErrNil]
SendOnFrame(resp, rid, mid, saw, b) ==
    IF resp.typ # rrtRespValue THEN SendFail(b, ErrInvalidResponseType)
    ELSE IF ~saw /\ resp.id = mid
      THEN [next |-> "loop", saw |-> TRUE, buf |-> b, ret |-> <<>>, err |-> ErrNil]
    ELSE IF saw
      THEN IF resp.body = trailer
             THEN [next |-> "ret", saw |-> saw, buf |-> b, ret |-> b, err |-> ErrNil]
             ELSE SendFail(b, ErrInvalidResponseTrailer)
    ELSE IF rid # resp.id THEN SendFail(b, ErrInvalidResponseID)
    ELSE [next |-> "loop", saw |-> saw, buf |-> b \o resp.body, ret |-> <<>>, err |-> ErrNil]

\* The frames of the current Send that were appended to buf so far.
Appended(t) ==
    SelectSeq(io[t], LAMBDA e : e.kind = "recv" /\ e.ok /\ e.what.typ = rrtRespValue
                                  /\ e.what.id = reqId[t])

\* One pass of Send's receive loop: s.rsock.receive(), unmarshalBinary and the
\* tests of the frame.
SendRecv(t) ==
    /\ pc[t] = "send_recv"
    /\ \E got \in RecvOutcomes(rsock), d \in RFrames(PeerIds) \cup {Garbage} :
         /\ (got /\ ~sawMirror[t] /\ d.typ = rrtRespValue /\ d.id = reqId[t])
               => Len(Appended(t)) < MaxFrags
         /\ io' = [io EXCEPT ![t] = Append(@, Ev("recv", "r", got, IF got THEN d ELSE NoFrame))]
         /\ LET r == IF ~got THEN SendFail(buf[t], ErrSock)
                     ELSE IF unmarshalBinary(d) # ErrNil
                       THEN SendFail(buf[t], unmarshalBinary(d))
                     ELSE SendOnFrame(d, reqId[t], mirrorId[t], sawMirror[t], buf[t])
            IN IF r.next = "loop"
                 THEN /\ buf' = [buf EXCEPT ![t] = r.buf]
                      /\ sawMirror' = [sawMirror EXCEPT ![t] = r.saw]
                      /\ UNCHANGED <<pc, ret, err>>
                 ELSE /\ SetResult(t, r.ret, r.err)
                      /\ UNCHANGED <<buf, sawMirror>>
    /\ UNCHANGED <<rcv, srv, conn, mu, op, reqId, mirrorId, data>>

\* ---------------------------------------------------- rconSocket.receive
\* RecvSpec runs one call of rconSocket.receive, read by read, against a peer
\* that delivers the bytes of rstream in pieces and then falls silent or
\* closes the stream.
PayloadBytes == {0, 7}

RECURSIVE SeqsOf(_, _)
SeqsOf(S, n) ==
    IF n = 0 THEN {<<>>}
    ELSE {Append(q, x) : q \in SeqsOf(S, n - 1), x \in S}

Zeros(n) == [i \in 1..n |-> 0]
Min(a, b) == IF a < b THEN a ELSE b

\* The wire form of a frame whose length prefix declares `len`, and of a
\* prefix declaring -1.
Wire(len, payload) == <<len, 0, 0, 0>> \o payload
Streams ==
    LET whole == UNION {{Wire(len, q) : q \in SeqsOf(PayloadBytes, len)} : len \in 0..MaxLen}
                   \cup {<<255, 255, 255, 255>>}
    IN UNION {{SubSeq(w, 1, k) : k \in 0..Len(w)} : w \in whole}

\* readLong: the little-endian int32 of four bytes.
\* (the top byte carries the sign: 128..255 stand for -128..-1)
SignedByte(x) == IF x >= 128 THEN x - 256 ELSE x
\* (variant: big-endian)
readLongBigEndian(b) == b[4] + 256 * b[3] + 65536 * b[2] + 16777216 * SignedByte(b[1])
readLong(b) == b[1] + 256 * b[2] + 65536 * b[3] + 16777216 * SignedByte(b[4])

errCouldNotReadData == "steam: could not read data"
errNotEnoughDataInResponse == "steam: not enough data in response"
ErrEOFWrapped == "steam: could not receive data (EOF)"

\* must(err), recovered by receive's deferred function: the error receive
\* returns.
must(e) == errCouldNotReadData

RInit ==
    /\ addr = "host" /\ rconPassword = "pw"
    /\ usock = "open" /\ rsock = "open" /\ rconInitialized = TRUE
    /\ mu = NoThread /\ nextId = 2
    /\ cpc = "ok" /\ cerr = ErrNil /\ cio = <<>> /\ creq = 1
    /\ pc = [t \in Threads |-> "idle"]
    /\ op = [t \in Threads |-> "none"]
    /\ io = [t \in Threads |-> <<>>]
    /\ reqId = [t \in Threads |-> 0]
    /\ mirrorId = [t \in Threads |-> 0]
    /\ buf = [t \in Threads |-> <<>>]
    /\ sawMirror = [t \in Threads |-> FALSE]
    /\ data = [t \in Threads |-> NoData]
    /\ ret = [t \in Threads |-> <<>>]
    /\ err = [t \in Threads |-> ErrNil]
    /\ rstream \in Streams
    /\ rend \in {"silent", "eof"}
    /\ rdl \in {"none", "set"}
    /\ rpc = "prefix"
    /\ rbuf = <<>> /\ rtotal = 0 /\ rout = <<>> /\ rerr = ErrNil
    /\ rread = <<>> /\ rseen = {}

\* receive returns.
RReturn(out, e) ==
    /\ rout' = out
    /\ rerr' = e
    /\ rpc' = "done"

\* What the loop does with a read that returned no byte and the error `e`
\* (rconsocket.go:60-64): "return" or "continue".
\* (variant: every read error returns)
OnReadErrorStrict(e) == "return"
OnReadError(e) == IF e = "EOF" THEN "return" ELSE "continue"

\* readLong(tr): one Read of io.ReadFull under the TeeReader. It delivers some
\* of the stream's bytes, or fails: at the end of the stream, or on the
\* deadline an earlier call left on the connection.
RPrefixRead ==
    /\ rpc = "prefix"
    /\ \/ /\ rstream # <<>>
          /\ \E n \in 1..Min(4 - Len(rbuf), Len(rstream)) :
               /\ rbuf' = rbuf \o SubSeq(rstream, 1, n)
               /\ rread' = rread \o SubSeq(rstream, 1, n)
               /\ rseen' = rseen \cup {"data"}
               /\ rstream' = SubSeq(rstream, n + 1, Len(rstream))
               /\ IF Len(rbuf') < 4
                    THEN UNCHANGED <<rpc, rtotal, rout, rerr>>
                    ELSE /\ rtotal' = readLong(rbuf')
                         /\ IF rtotal' > 0
                              THEN rpc' = "deadline" /\ UNCHANGED <<rout, rerr>>
                              ELSE RReturn(rbuf', ErrNil)
       \/ /\ rstream = <<>> /\ rend = "eof"
          /\ RReturn(<<>>, must("EOF"))
          /\ rseen' = rseen \cup {"EOF"}
          /\ UNCHANGED <<rstream, rbuf, rtotal, rread>>
       \/ /\ rdl = "set"
          /\ RReturn(<<>>, must("timeout"))
          /\ rseen' = rseen \cup {"timeout"}
          /\ UNCHANGED <<rstream, rbuf, rtotal, rread>>
    /\ UNCHANGED <<rend, rdl, srv, conn, mu, thr>>

\* s.conn.SetReadDeadline at the head of the loop body.
RSetDeadline ==
    /\ rpc = "deadline"
    /\ \E ok \in BOOLEAN :
         IF ok
           THEN rdl' = "set" /\ rpc' = "read" /\ UNCHANGED <<rout, rerr>>
           ELSE RReturn(<<>>, ErrSock) /\ UNCHANGED rdl
    /\ UNCHANGED <<rstream, rend, rbuf, rtotal, rread, rseen, srv, conn, mu, thr>>

\* s.conn.Read(b) with len(b) = total, and the rest of the loop body.
RLoopRead ==
    /\ rpc = "read"
    /\ \/ /\ rstream # <<>>
          /\ \E n \in 1..Min(rtotal, Len(rstream)) :
               /\ rbuf' = rbuf \o SubSeq(rstream, 1, n) \o Zeros(rtotal - n)
               /\ rread' = rread \o SubSeq(rstream, 1, n)
               /\ rseen' = rseen \cup {"data"}
               /\ rstream' = SubSeq(rstream, n + 1, Len(rstream))
               /\ rtotal' = rtotal - n
               /\ IF rtotal' > 0
                    THEN rpc' = "deadline" /\ UNCHANGED <<rout, rerr>>
                    ELSE RReturn(rbuf', ErrNil)
       \/ /\ \E e \in {"timeout"} \cup (IF rstream = <<>> /\ rend = "eof" THEN {"EOF"} ELSE {}) :
               /\ rseen' = rseen \cup {e}
               /\ IF OnReadError(e) = "return"
                    THEN RReturn(<<>>, IF e = "EOF" THEN ErrEOFWrapped ELSE ErrSock)
                    ELSE rpc' = "deadline" /\ UNCHANGED <<rout, rerr>>
          /\ UNCHANGED <<rstream, rbuf, rtotal, rread>>
    /\ UNCHANGED <<rend, rdl, srv, conn, mu, thr>>

RNext == RPrefixRead \/ RSetDeadline \/ RLoopRead

\* Every step of receive that can be taken is taken: the goroutine runs.
RecvSpec == RInit /\ [][RNext]_vars /\ WF_vars(RNext)

Next ==
    \/ ConnectInit
    \/ InitRCONDial
    \/ AuthSend
    \/ AuthRecv1
    \/ AuthRecv2
    \/ \E t \in Threads, o \in Ops : Invoke(t, o)
    \/ \E t \in Threads : Lock(t)
    \/ \E t \in Threads : Return(t)
    \/ \E t \in Threads : CloseRCON(t)
    \/ \E t \in Threads : CloseQuery(t)
    \/ \E t \in Threads : PingSend(t)
    \/ \E t \in Threads : PingRecv(t)
    \/ \E t \in Threads : QuerySend(t)
    \/ \E t \in Threads : QueryRecv(t)
    \/ \E t \in Threads : SendCheck(t)
    \/ \E t \in Threads : SendRequest(t)
    \/ \E t \in Threads : SendMirror(t)
    \/ \E t \in Threads : SendRecv(t)

Spec == Init /\ [][Next]_vars

\* ================================================================ claims
\* What one operation put on and took off the wire, from its log.
Sends(t) == SelectSeq(io[t], LAMBDA e : e.kind = "send")
Recvs(t) == SelectSeq(io[t], LAMBDA e : e.kind = "recv")
AllRecvOk(t) == \A i \in 1..Len(Recvs(t)) : Recvs(t)[i].ok
RxBodies(t, n) == [i \in 1..n |-> Recvs(t)[i].what.body]

\* The peer answered this Send with n frames carrying the EXEC_COMMAND id, the
\* mirror frame, and the trailer frame, and nothing else.
MirrorTrailerShape(t, n) ==
    /\ Len(Recvs(t)) = n + 2
    /\ AllRecvOk(t)
    /\ \A i \in 1..n : /\ Recvs(t)[i].what.typ = rrtRespValue
                       /\ Recvs(t)[i].what.id = reqId[t]
    /\ Recvs(t)[n + 1].what.typ = rrtRespValue
    /\ Recvs(t)[n + 1].what.id = mirrorId[t]
    /\ Recvs(t)[n + 2].what.typ = rrtRespValue
    /\ Recvs(t)[n + 2].what.body = trailer

\* C1: when the peer answers a Send with N frames carrying the request id,
\* then the mirror frame, then a frame whose body is the trailer, Send returns
\* without error the N bodies concatenated in the order received; the mirror's
\* and the trailer's bodies are no part of it.
C1_MirrorTrailerConcat ==
    \A t \in Threads : \A n \in 0..(MaxFrags + 1) :
        (op[t] = "Send" /\ MirrorTrailerShape(t, n))
          => /\ pc[t] = "ret"
             /\ err[t] = ErrNil
             /\ ret[t] = Concat(RxBodies(t, n))

C1_Witness ==
    \E t \in Threads :
        /\ op[t] = "Send" /\ pc[t] = "ret"
        /\ MirrorTrailerShape(t, 2)
        /\ Recvs(t)[1].what.body = <<1>>
        /\ Recvs(t)[2].what.body = trailer
        /\ Recvs(t)[3].what.body = <<1>>
        /\ ret[t] = <<1, 0, 1, 0, 0>>

\* C2: a Send on a server whose rconInitialized is false returns
\* ErrRCONNotInitialized with empty output, and sends and receives nothing.
C2_UnauthenticatedSend ==
    \A t \in Threads :
        (op[t] = "Send" /\ pc[t] \notin {"lock", "send_check"} /\ ~rconInitialized)
          => /\ pc[t] = "ret"
             /\ err[t] = ErrRCONNotInitialized
             /\ ret[t] = <<>>
             /\ io[t] = <<>>

C2_Witness ==
    \E t \in Threads :
        /\ op[t] = "Send" /\ pc[t] = "ret" /\ ~rconInitialized
        /\ err[t] = ErrRCONNotInitialized

\* The peer's two replies to the AUTH frame, once authenticate has read both.
AuthReplies(second) ==
    /\ Len(cio) = 3
    /\ \A i \in 1..3 : cio[i].ok
    /\ cio[2].what = [typ |-> rrtRespValue, id |-> creq, body |-> <<>>]
    /\ cio[3].what = [typ |-> rrtAuthResp, id |-> second, body |-> <<>>]

\* C3: an empty RESPONSE_VALUE frame with the request id followed by an
\* AUTH_RESPONSE frame with the request id makes authenticate succeed and
\* rconInitialized true; followed by an AUTH_RESPONSE frame with id -1 it makes
\* authenticate fail with ErrRCONAuthFailed, rconInitialized stays false and
\* the RCON socket is closed when initRCON has returned.
C3_AuthOutcome ==
    /\ AuthReplies(creq) => (cpc = "ok" /\ cerr = ErrNil /\ rconInitialized)
    /\ AuthReplies(-1) => /\ cpc = "failed"
                          /\ cerr = ErrRCONAuthFailed
                          /\ ~rconInitialized
                          /\ rsock = "closed"

C3_Witness == AuthReplies(-1) /\ cpc = "failed" /\ rsock = "closed"

\* C4: Info and PlayersInfo send one request and receive one datagram when the
\* first reply is no challenge reply; when it is a challenge reply with value
\* c they send exactly two requests, the second of the same kind and carrying
\* c, and receive exactly two datagrams (one when the second send fails).
C4_ChallengeRoundTrips ==
    \A t \in Threads :
        (op[t] \in {"Info", "PlayersInfo"} /\ Len(Recvs(t)) >= 1 /\ Recvs(t)[1].ok)
          => LET first == Recvs(t)[1].what
             IN /\ ~isChallengeResponse(first)
                     => (pc[t] = "ret" /\ Len(Sends(t)) = 1 /\ Len(Recvs(t)) = 1)
                /\ (isChallengeResponse(first) /\ first.good /\ pc[t] = "ret")
                     => /\ Len(Sends(t)) = 2
                        /\ Sends(t)[1].what.kind = op[t]
                        /\ Sends(t)[2].what = [kind |-> op[t], challenge |-> first.val]
                        /\ Len(Recvs(t)) = IF Sends(t)[2].ok THEN 2 ELSE 1
                        /\ io[t][1].kind = "send" /\ io[t][2].kind = "recv"
                        /\ io[t][3].kind = "send"

C4_Witness ==
    \E t \in Threads :
        /\ op[t] = "PlayersInfo" /\ pc[t] = "ret" /\ err[t] = ErrNil
        /\ Len(Recvs(t)) = 2
        /\ Recvs(t)[1].what = [tag |-> "challenge", val |-> 7, good |-> TRUE]
        /\ Sends(t)[2].what = [kind |-> "PlayersInfo", challenge |-> 7]

\* An operation is between its first socket call and its return.
InFlight(t) ==
    pc[t] \in {"ping_recv", "q_recv1", "q_send2", "q_recv2", "send_mirror", "send_recv"}

\* C5: Ping, Info, PlayersInfo, Send and Close on one Server exclude each
\* other: no two request/response exchanges are in flight at once, and no
\* socket is closed while an exchange is in flight.
C5_MutualExclusion ==
    /\ [](\A t, u \in Threads : t # u => ~(InFlight(t) /\ InFlight(u)))
    /\ [][(\E u \in Threads : InFlight(u)) => (usock' = usock /\ rsock' = rsock)]_vars

\* The peer has stopped sending: the stream is exhausted and stays open.
PeerSilent == rstream = <<>> /\ rend = "silent"

\* C6: when the peer stops sending, so that every further read ends in a
\* deadline timeout, receive returns after finitely many reads.
C6_ReceiveReturns == (rpc # "done" /\ PeerSilent /\ rdl = "set") ~> (rpc = "done")

\* C7: when Connect returns an error, no socket it opened is still open.
C7_ConnectNoLeak == cpc = "failed" => (usock # "open" /\ rsock # "open")

C7_Witness ==
    /\ cpc = "failed" /\ cerr = ErrInvalidResponseID
    /\ usock = "closed" /\ rsock = "closed"

\* The place of the mirror frame among the frames Send received: the first
\* one that carries the mirror id (0 when there is none).
MirrorPos(t) ==
    LET at == {i \in 1..Len(Recvs(t)) :
                  Recvs(t)[i].ok /\ Recvs(t)[i].what.typ = rrtRespValue
                    /\ Recvs(t)[i].what.id = mirrorId[t]}
    IN IF at = {} THEN 0 ELSE CHOOSE i \in at : \A j \in at : i <= j

\* C8: after the mirror frame, a RESPONSE_VALUE frame whose body is not the
\* trailer makes Send fail with ErrInvalidResponseTrailer; and Send returns
\* without error only when the frame after the mirror frame carried the
\* trailer.
C8_TrailerAfterMirror ==
    \A t \in Threads :
        op[t] = "Send" =>
          LET k == MirrorPos(t)
              rx == Recvs(t)
          IN /\ (k > 0 /\ Len(rx) > k /\ rx[k + 1].ok
                   /\ rx[k + 1].what.typ = rrtRespValue
                   /\ rx[k + 1].what.body # trailer)
                  => (pc[t] = "ret" /\ err[t] = ErrInvalidResponseTrailer
                        /\ Len(rx) = k + 1)
             /\ (pc[t] = "ret" /\ err[t] = ErrNil)
                  => (k > 0 /\ Len(rx) = k + 1 /\ rx[k + 1].ok
                        /\ rx[k + 1].what.typ = rrtRespValue
                        /\ rx[k + 1].what.body = trailer)

C8_Witness ==
    \E t \in Threads :
        /\ op[t] = "Send" /\ pc[t] = "ret" /\ err[t] = ErrInvalidResponseTrailer
        /\ MirrorPos(t) = 2
        /\ Recvs(t)[3].what.body = <<1>>

\* A socket call that failed is the last one of its operation, which returns
\* an error.
AbortsOnError(log, returned, e) ==
    \A i \in 1..Len(log) :
        ~log[i].ok => (i = Len(log) /\ returned /\ e # ErrNil)

\* C9: in Ping, Info, PlayersInfo, Send and authenticate a failed send or
\* receive is the operation's last socket call, and the operation returns an
\* error.
C9_AbortOnSocketError ==
    /\ AbortsOnError(cio, cpc = "failed", cerr)
    /\ \A t \in Threads : AbortsOnError(io[t], pc[t] = "ret", err[t])

\* C10: whenever Send returns an error, the string it returns is empty, however
\* much output it had accumulated.
C10_NoPartialOutput ==
    \A t \in Threads :
        (op[t] = "Send" /\ pc[t] = "ret" /\ err[t] # ErrNil) => ret[t] = <<>>

C10_Witness ==
    \E t \in Threads :
        /\ op[t] = "Send" /\ pc[t] = "ret" /\ err[t] = ErrInvalidResponseTrailer
        /\ buf[t] = <<1, 0, 1, 0, 0>> /\ ret[t] = <<>>

\* The length the prefix declared, once receive's reads have taken the four
\* prefix bytes off the stream (0 before that).
Declared == IF Len(rread) >= 4 THEN readLong(SubSeq(rread, 1, 4)) ELSE 0

\* C11: when the stream delivers a frame with declared payload length L > 0 in
\* reads of one or more bytes each, receive returns exactly the 4 + L bytes of
\* the stream, in order, and nothing else.
C11_ExactFrame ==
    (rpc = "done" /\ rseen = {"data"} /\ Declared > 0 /\ Len(rread) = 4 + Declared)
      => (rerr = ErrNil /\ rout = rread)

\* C12: when a read of the loop finds the end of the stream before the
\* declared number of payload bytes is there, receive fails with
\* errNotEnoughDataInResponse and returns no data.
C12_EOFNotEnoughData ==
    (rpc = "done" /\ "EOF" \in rseen /\ Declared > 0)
      => (rerr = errNotEnoughDataInResponse /\ rout = <<>>)

\* The first reply authenticate read and decoded.
AuthFirstReply == Len(cio) >= 2 /\ cio[2].ok /\ cio[2].what # Garbage

\* C13: a first reply whose id is not the AUTH request's id fails with
\* ErrInvalidResponseID, one with that id and a type other than RESPONSE_VALUE
\* fails with ErrInvalidResponseType, and in both cases the second reply is
\* not read.
C13_FirstReplyClassified ==
    AuthFirstReply =>
      LET first == cio[2].what
      IN /\ first.id # creq
              => (cpc = "failed" /\ cerr = ErrInvalidResponseID /\ Len(cio) = 2)
         /\ (first.id = creq /\ first.typ # rrtRespValue)
              => (cpc = "failed" /\ cerr = ErrInvalidResponseType /\ Len(cio) = 2)

\* The frames Send received ahead of the mirror frame, and those of them that
\* are RESPONSE_VALUE frames with the id `id`.
PreMirror(t) ==
    LET k == MirrorPos(t)
    IN IF k = 0 THEN Recvs(t) ELSE SubSeq(Recvs(t), 1, k - 1)
WithId(evs, id) ==
    SelectSeq(evs, LAMBDA e : e.ok /\ e.what.typ = rrtRespValue /\ e.what.id = id)
BodiesOf(evs) == [i \in 1..Len(evs) |-> evs[i].what.body]

\* C14: what Send has appended to its output is the bodies of the
\* RESPONSE_VALUE frames it received ahead of the mirror with the id of its own
\* EXEC_COMMAND request, an id no earlier request had; a RESPONSE_VALUE frame
\* ahead of the mirror with another id (not the mirror's) makes Send fail with
\* ErrInvalidResponseID and return nothing.
C14_OutputFromOwnRequest ==
    \A t \in Threads :
        (op[t] = "Send" /\ reqId[t] # 0) =>
          LET pre == PreMirror(t) IN
          /\ buf[t] = Concat(BodiesOf(WithId(pre, reqId[t])))
          /\ (pc[t] = "ret" /\ err[t] = ErrNil) => ret[t] = buf[t]
          /\ reqId[t] > creq
          /\ \A u \in Threads : (u # t /\ reqId[u] # 0) => reqId[u] # reqId[t]
          /\ \A i \in 1..Len(pre) :
               LET e == pre[i]
               IN (e.ok /\ e.what.typ = rrtRespValue
                     /\ e.what.id \notin {reqId[t], mirrorId[t]})
                    => /\ pc[t] = "ret"
                       /\ err[t] = ErrInvalidResponseID
                       /\ ret[t] = <<>>
                       /\ i = Len(pre)

\* A second Send is answered with a frame of its own, then with a frame that
\* carries the id of the first Send.
C14_Witness ==
    \E t \in Threads :
        /\ op[t] = "Send" /\ pc[t] = "ret" /\ reqId[t] = 4
        /\ Len(Recvs(t)) = 2
        /\ Recvs(t)[1].what = [typ |-> rrtRespValue, id |-> 4, body |-> <<1>>]
        /\ Recvs(t)[2].what = [typ |-> rrtRespValue, id |-> 2, body |-> <<1>>]
        /\ err[t] = ErrInvalidResponseID /\ buf[t] = <<1>>

\* C15: Send puts two frames on the wire, the EXEC_COMMAND frame with the
\* command text and then the empty RESPONSE_VALUE mirror frame, both ahead of
\* the first receive and none after it; when the EXEC_COMMAND send fails the
\* mirror frame is not sent.
C15_TwoFramesInOrder ==
    \A t \in Threads :
        op[t] = "Send" =>
          LET sn == Sends(t)
          IN /\ Len(sn) <= 2
             /\ Len(sn) >= 1 => /\ io[t][1].kind = "send"
                                /\ sn[1].what.typ = rrtExecCmd
                                /\ sn[1].what.body = CmdText
             /\ Len(sn) = 2 => /\ io[t][2].kind = "send"
                               /\ sn[1].ok
                               /\ sn[2].what.typ = rrtRespValue
                               /\ sn[2].what.body = <<>>
                               /\ sn[2].what.id # sn[1].what.id
             /\ Len(Recvs(t)) >= 1 => (Len(sn) = 2 /\ sn[2].ok)
             /\ (Len(sn) >= 1 /\ ~sn[1].ok) => (Len(io[t]) = 1 /\ pc[t] = "ret")
             /\ pc[t] = "send_recv" => Len(sn) = 2

C15_Witness ==
    \E t \in Threads :
        /\ op[t] = "Send" /\ pc[t] = "ret" /\ err[t] = ErrNil
        /\ Len(Sends(t)) = 2 /\ Len(Recvs(t)) = 3
        /\ io[t][1].what = [typ |-> rrtExecCmd, id |-> 2, body |-> <<1>>]
        /\ io[t][2].what = [typ |-> rrtRespValue, id |-> 3, body |-> <<>>]

\* C16: Info and PlayersInfo query again at most once: a call sends at most
\* two requests, and when the reply to the second request is a challenge reply
\* again the call sends nothing more, decodes that reply as the response and
\* returns the decode error.
C16_RequeryAtMostOnce ==
    \A t \in Threads :
        op[t] \in {"Info", "PlayersInfo"} =>
          /\ Len(Sends(t)) <= 2
          /\ Len(Recvs(t)) <= 2
          /\ (Len(Recvs(t)) = 2 /\ Recvs(t)[2].ok /\ Recvs(t)[2].what.tag = "challenge")
               => /\ pc[t] = "ret"
                  /\ err[t] = ErrDecode
                  /\ ret[t] = <<>>
                  /\ Len(io[t]) = 4
                  /\ io[t][3].kind = "send" /\ io[t][4].kind = "recv"

C16_Witness ==
    \E t \in Threads :
        /\ op[t] = "Info" /\ pc[t] = "ret" /\ err[t] = ErrDecode
        /\ Len(Sends(t)) = 2 /\ Len(Recvs(t)) = 2
        /\ Recvs(t)[1].what = [tag |-> "challenge", val |-> 7, good |-> TRUE]
        /\ Recvs(t)[2].what = [tag |-> "challenge", val |-> 0, good |-> TRUE]

\* An operation is between s.mu.Lock() and its deferred s.mu.Unlock().
Locked(t) == pc[t] \notin {"idle", "lock", "close_r", "close_u"}

\* C17: the lock is held by a goroutine exactly while its Ping, Info,
\* PlayersInfo or Send is between Lock and return; one that has returned, with
\* or without an error, holds it no more, so that the lock is free whenever no
\* operation is running.
C17_LockReleased ==
    /\ mu \in Threads \cup {NoThread}
    /\ \A t \in Threads : Locked(t) <=> mu = t
    /\ (\A t \in Threads : pc[t] = "idle") => mu = NoThread

\* A Send has the lock and the third id: an earlier Send took the second id,
\* failed to send its EXEC_COMMAND frame and returned.
C17_Witness ==
    \E t \in Threads :
        /\ op[t] = "Send" /\ reqId[t] = 3 /\ mu = t
        /\ io[t][1].ok

\* authenticate returned nil: the AUTH frame went out and the two replies, an
\* empty response value and an auth response, both carried its id.
AuthSucceeded ==
    /\ Len(cio) = 3
    /\ cio[1].kind = "send" /\ cio[1].ok /\ cio[1].what.typ = rrtAuth
    /\ cio[2].kind = "recv" /\ cio[2].ok
    /\ cio[2].what.typ = rrtRespValue /\ cio[2].what.id = creq
    /\ cio[3].kind = "recv" /\ cio[3].ok
    /\ cio[3].what.typ = rrtAuthResp /\ cio[3].what.id = creq

\* C18: rconInitialized is true only when a password was given, the RCON
\* socket was opened and authenticate succeeded on it; a Server that Connect
\* returned has an RCON socket exactly when rconInitialized is true.
C18_RconInitializedMeaning ==
    /\ rconInitialized =>
         /\ rconPassword # ""
         /\ rsock # "nil"
         /\ AuthSucceeded
         /\ cpc = "ok" /\ cerr = ErrNil
    /\ cpc = "ok" => (rsock # "nil" <=> rconInitialized)

C18_Witness ==
    /\ cpc = "ok" /\ rconInitialized /\ rconPassword = "pw"
    /\ rsock = "open" /\ AuthSucceeded

\* A step of goroutine t's Close.
CloseStep(t) == pc[t] \in {"close_r", "close_u"} /\ pc'[t] # pc[t]

\* C19: a step of Close leaves addr, rconPassword and rconInitialized as they
\* are and keeps both socket references, a closed socket staying closed when
\* Close runs again; so a Send on a Server that Connect authenticated passes
\* the rconInitialized test after Close as before it, and on the closed RCON
\* socket its first action is a send that fails, never ErrRCONNotInitialized.
C19_CloseKeepsFields ==
    /\ [][\A t \in Threads : CloseStep(t) =>
            /\ rconInitialized' = rconInitialized
            /\ addr' = addr /\ rconPassword' = rconPassword
            /\ (rsock' = "nil") <=> (rsock = "nil")
            /\ (usock' = "nil") <=> (usock = "nil")
            /\ rsock = "closed" => rsock' = "closed"
            /\ usock = "closed" => usock' = "closed"]_vars
    /\ [][\A t \in Threads :
            (pc[t] = "send_check" /\ pc'[t] # pc[t] /\ rconPassword # "")
              => pc'[t] = "send_req"]_vars
    /\ [][\A t \in Threads :
            (pc[t] = "send_req" /\ pc'[t] # pc[t] /\ rsock = "closed")
              => /\ Len(io'[t]) = 1
                 /\ io'[t][1].kind = "send" /\ io'[t][1].sock = "r"
                 /\ ~io'[t][1].ok
                 /\ pc'[t] = "ret" /\ err'[t] = ErrSock]_vars

\* Both sockets are closed, a Close runs again, and a Send has got past the
\* rconInitialized test to a send that failed.
C19_Witness ==
    \E t, u \in Threads :
        /\ op[t] = "Close" /\ pc[t] = "close_u"
        /\ usock = "closed" /\ rsock = "closed" /\ rconInitialized
        /\ op[u] = "Send" /\ pc[u] = "ret" /\ err[u] = ErrSock
        /\ Len(io[u]) = 1 /\ ~io[u][1].ok
====
